---- MODULE Spec2Model ----
(***************************************************************************)
(* Process lifecycle supervisor and command orchestrator of build.py.      *)
(*                                                                         *)
(* The model follows the CLI invocations of build.py step by step: every   *)
(* action is one statement (or one system call) of the source, so that the *)
(* operating system (processes exiting, being reaped, pids being reused)   *)
(* can take steps between any two statements of an invocation.  The scan   *)
(* of kill_test_processes() is one action: what happens to a process       *)
(* between its enumeration and its kill is an outcome of the kill.         *)
(*                                                                         *)
(* Specifications:                                                         *)
(*  - Spec: complete CLI invocations, one after the other;                 *)
(*  - SpecCalls: Spec with direct calls of start_background();             *)
(*  - SpecCrash: start and status invocations that may be killed or        *)
(*    interrupted at any statement;                                        *)
(*  - SpecFiles: one invocation of status, stop, start, build or test with *)
(*    a handle file that others remove or that cannot be read;             *)
(*  - SpecOverlap: two invocations of status, stop, start or build that    *)
(*    overlap in time;                                                     *)
(*  - SpecWrite: a call of start_background() and a status invocation that *)
(*    overlap in time;                                                     *)
(*  - SpecStop: stop invocations one after the other, with weak fairness   *)
(*    on the statements of the invocation in progress;                     *)
(*  - SpecReap: one test invocation, with test workers among the           *)
(*    processes.                                                           *)
(*                                                                         *)
(* Modelling decisions:                                                    *)
(*  - the handle file .riddle.pid is a file that exists or not, with its   *)
(*    text as a sequence of characters; str() and int() are computed;      *)
(*  - the process table maps each pid to a process (running or zombie,     *)
(*    with the class that decides what psutil may do to it) or to nothing; *)
(*  - file operations on the handle file fail only for the reasons the     *)
(*    model can produce: the file is missing and, under SpecFiles, it      *)
(*    cannot be opened or read;                                            *)
(*  - the external toolchain is an opaque command that completes with a    *)
(*    status within one step;                                              *)
(*  - the handle file starts absent, unparsable, or holding a positive     *)
(*    pid (what start_background writes);                                  *)
(*  - open(PID_FILE, 'w') leaves the file empty until the text is written  *)
(*    by one write call when the file is closed; a write to a file that    *)
(*    was unlinked in between leaves no file at the path;                  *)
(*  - command lines are sequences of words, and the marker test of the     *)
(*    reaper is computed on their characters.                              *)
(***************************************************************************)
EXTENDS Integers, Sequences, FiniteSets, TLC

(* Largest process id of the modelled process table. *)
MaxPid == 12

(* The process ids: their decimal text (line 284) has more than one digit,
   so that a part of it is the text of another number. *)
Pids == 11..MaxPid

(* Concurrent CLI invocations that may exist; Spec runs them one at a time. *)
CLIs == {1, 2}

(* Python's None as a pid value: get_running_pid returns it for "no process". *)
None == 0

VARIABLES
    PID_FILE,   \* the handle file: [exists, text]
    procs,      \* the OS process table: pid -> [st, kind]
    mode,       \* what may be invoked and when (fixed by the specification):
                \* "cli" is one CLI invocation after the other, "calls" adds
                \* direct calls of start_background(), see Invocable
    pc,         \* per invocation: the statement it is at
    stack,      \* per invocation: the return addresses of the calls in progress
    cmd,        \* per invocation: the command of sys.argv[1] (and [2] for db)
    argv,       \* per invocation: sys.argv[2:] of a `test`, once the program
                \* has depended on it (lines 194 and 416)
    pid,        \* per invocation: the local `pid` of the function in progress
    process,    \* per invocation: the psutil.Process of stop_background
    child,      \* per invocation: process.pid of the Popen of start_background
    killed,     \* per invocation: the local `killed` of kill_test_processes
    exitcode,   \* per invocation: the exit status, once it has ended
    trace,      \* per invocation: what it has done and printed so far
    prevStop    \* how the invocation before the current one ended, if it was `stop`

vars == <<PID_FILE, procs, mode, pc, stack, cmd, argv, pid, process, child,
          killed, exitcode, trace, prevStop>>

world == <<PID_FILE, procs>>
locals == <<pid, process, child, killed>>
ctl == <<pc, stack>>
meta == <<mode, cmd, argv, prevStop>>

(***************************************************************************)
(* Text of the handle file: str(pid) and int(text.strip()).                *)
(***************************************************************************)
Digits == <<"0", "1", "2", "3", "4", "5", "6", "7", "8", "9">>

IsDigit(c) == \E d \in 1..10 : Digits[d] = c

DigitValue(c) == (CHOOSE d \in 1..10 : Digits[d] = c) - 1

IsSpace(c) == c \in {" ", "\n"}

RECURSIVE str(_)
str(n) == IF n < 10 THEN <<Digits[n + 1]>>
          ELSE str(n \div 10) \o <<Digits[(n % 10) + 1]>>

RECURSIVE lstrip(_)
lstrip(s) == IF s # <<>> /\ IsSpace(Head(s)) THEN lstrip(Tail(s)) ELSE s

RECURSIVE rstrip(_)
rstrip(s) == IF s # <<>> /\ IsSpace(s[Len(s)])
             THEN rstrip(SubSeq(s, 1, Len(s) - 1)) ELSE s

strip(s) == rstrip(lstrip(s))

(* int() accepts a non-empty run of decimal digits here; anything else is a
   ValueError. *)
IsInt(s) == s # <<>> /\ \A k \in 1..Len(s) : IsDigit(s[k])

RECURSIVE int(_)
int(s) == IF s = <<>> THEN 0
          ELSE 10 * int(SubSeq(s, 1, Len(s) - 1)) + DigitValue(s[Len(s)])

Garbage == <<"x">>

Absent == [exists |-> FALSE, text |-> <<>>]

File(t) == [exists |-> TRUE, text |-> t]

(* The characters of the strings of which the program looks at the content. *)
Spell(s) ==
    CASE s = "" -> <<>>
      [] s = "HLR_COMBAT_010" -> <<"H", "L", "R", "_", "C", "O", "M", "B",
            "A", "T", "_", "0", "1", "0">>
      [] s = "Riddle.Web.IntegrationTests" -> <<"R", "i", "d", "d", "l", "e",
            ".", "W", "e", "b", ".", "I", "n", "t", "e", "g", "r", "a", "t",
            "i", "o", "n", "T", "e", "s", "t", "s">>
      [] s = "TestHost" -> <<"T", "e", "s", "t", "H", "o", "s", "t">>
      [] s = "python" -> <<"p", "y", "t", "h", "o", "n">>
      [] s = "build.py" -> <<"b", "u", "i", "l", "d", ".", "p", "y">>
      [] s = "test" -> <<"t", "e", "s", "t">>
      [] s = "dotnet" -> <<"d", "o", "t", "n", "e", "t">>
      [] s = "run" -> <<"r", "u", "n">>
      [] s = "--project" -> <<"-", "-", "p", "r", "o", "j", "e", "c", "t">>
      [] s = "src/Riddle.Web/Riddle.Web.csproj" -> <<"s", "r", "c", "/", "R",
            "i", "d", "d", "l", "e", ".", "W", "e", "b", "/", "R", "i", "d",
            "d", "l", "e", ".", "W", "e", "b", ".", "c", "s", "p", "r", "o",
            "j">>
      [] s = "--no-restore" -> <<"-", "-", "n", "o", "-", "r", "e", "s", "t",
            "o", "r", "e">>
      [] s = "testhost.dll" -> <<"t", "e", "s", "t", "h", "o", "s", "t", ".",
            "d", "l", "l">>
      [] s = "bash" -> <<"b", "a", "s", "h">>
      [] s = "testhost" -> <<"t", "e", "s", "t", "h", "o", "s", "t">>

Uppercase == <<"A", "B", "C", "D", "E", "F", "G", "H", "I", "J", "K", "L", "M",
               "N", "O", "P", "Q", "R", "S", "T", "U", "V", "W", "X", "Y", "Z">>

Lowercase == <<"a", "b", "c", "d", "e", "f", "g", "h", "i", "j", "k", "l", "m",
               "n", "o", "p", "q", "r", "s", "t", "u", "v", "w", "x", "y", "z">>

(* str.lower() *)
lower(s) == [k \in 1..Len(s) |->
               IF \E n \in 1..Len(Uppercase) : Uppercase[n] = s[k]
               THEN Lowercase[CHOOSE n \in 1..Len(Uppercase) : Uppercase[n] = s[k]]
               ELSE s[k]]

(* ' '.join(words), on the characters of the words *)
RECURSIVE join(_)
join(words) == IF words = <<>> THEN <<>>
               ELSE IF Len(words) = 1 THEN Spell(words[1])
               ELSE Spell(words[1]) \o <<" ">> \o join(Tail(words))

(* sub in s *)
In(sub, s) == \E k \in 0..(Len(s) - Len(sub)) : SubSeq(s, k + 1, k + Len(sub)) = sub

(* A test that takes whatever dotnet runs for a test worker. *)
HasMarker_dotnet(words) == In(Spell("dotnet"), lower(join(words)))

(* 194: 'testhost' in cmdline.lower() or 'Riddle.Web.IntegrationTests' in
   cmdline, for cmdline = ' '.join(words) *)
HasMarker(words) ==
    \/ In(Spell("testhost"), lower(join(words)))
    \/ In(Spell("Riddle.Web.IntegrationTests"), join(words))

(***************************************************************************)
(* The process table.                                                      *)
(*   kind "child"  : launched by start_background (same user)              *)
(*   kind "user"   : unrelated process of the same user                    *)
(*   kind "system" : unrelated process that may be looked up, not signalled*)
(*   kind "hidden" : unrelated process whose lookup is denied              *)
(*   kind "testhost" : test worker left by a test run of the same user     *)
(*   kind "testhost_other" : test worker of another user (no signal)       *)
(* A zombie keeps of its kind only whether it may be signalled ("user") or *)
(* not ("system"): nothing else can be observed of it.                     *)
(***************************************************************************)
NoProc == [st |-> "none", kind |-> "none"]

ForeignKinds == {"user", "system", "hidden"}

TestKinds == {"testhost", "testhost_other"}

Proc(st, kind) == [st |-> st, kind |-> kind]

Exists(p) == p \in Pids /\ procs[p].st # "none"

(* psutil raises AccessDenied when the process is looked up. *)
ProbeDenied(p) == procs[p].kind = "hidden"

(* os.kill fails with EPERM, which psutil raises as AccessDenied. *)
SignalDenied(p) == procs[p].kind \in {"system", "hidden", "testhost_other"}

(* The command line of a process, by its kind: that of the child is the one
   of lines 266 and 275 (dotnet_path is "dotnet" or "dotnet/dotnet", lines
   130 and 171), a test worker runs testhost.dll, any other process stands
   for a command line without a marker. *)
cmdline(kind) ==
    CASE kind = "child" ->
           <<"dotnet", "run", "--project", "src/Riddle.Web/Riddle.Web.csproj",
             "--no-restore">>
      [] kind \in TestKinds -> <<"dotnet", "testhost.dll">>
      [] OTHER -> <<"bash">>

(* The command lines of the process table that hold a marker (the test of
   line 194, evaluated once for each command line there is). *)
MarkedLines ==
    {w \in {<<>>} \cup {cmdline(k) : k \in {"child"} \cup ForeignKinds \cup TestKinds} :
       HasMarker(w)}

(* A probe that fails for every process, as if each lookup were denied. *)
is_process_running_denied(p) == FALSE

(* A probe that counts a process whose lookup is denied as running. *)
is_process_running_if_exists(p) == Exists(p) /\ procs[p].st # "zombie"

(* A probe without the zombie test of line 208. *)
is_process_running_no_zombie_test(p) == Exists(p) /\ ~ProbeDenied(p)

is_process_running(p) ==
    IF ~Exists(p) THEN FALSE             \* psutil.NoSuchProcess
    ELSE IF ProbeDenied(p) THEN FALSE    \* psutil.AccessDenied
    ELSE procs[p].st # "zombie"          \* is_running() and status() != ZOMBIE

Zombie(p) == Proc("zombie", IF SignalDenied(p) THEN "system" ELSE "user")

(* The children of start_background that are alive. *)
LiveChildren == {p \in Pids : procs[p] = Proc("run", "child")}

(***************************************************************************)
(* Invocation bookkeeping.                                                 *)
(***************************************************************************)
Commands == {"status", "stop", "start", "build", "test", "backup", "restore",
             "publish", "watch", "run"}

(* sys.argv[2:] of a `test` invocation: no filter, an empty one, the name of
   a test, the namespace of the test project, the name of a class. *)
Filters == {<<>>, <<"">>, <<"HLR_COMBAT_010">>, <<"Riddle.Web.IntegrationTests">>,
            <<"TestHost">>}

(* The command line of an invocation of `test` with sys.argv[2:] = a: the
   interpreter, the script and sys.argv[1:] (lines 1481 and 416). *)
own_cmdline(a) == <<"python", "build.py", "test">> \o a

(* The filters with which the command line of the invocation itself holds a
   marker (the test of line 194, evaluated once for each filter). *)
MarkedFilters == {a \in Filters : HasMarker(own_cmdline(a))}

Goto(i, l) == pc' = [pc EXCEPT ![i] = l]

Call(i, f, cont) ==
    /\ pc' = [pc EXCEPT ![i] = f]
    /\ stack' = [stack EXCEPT ![i] = <<cont>> \o @]

Return(i) ==
    /\ pc' = [pc EXCEPT ![i] = Head(stack[i])]
    /\ stack' = [stack EXCEPT ![i] = Tail(@)]

Emit(i, e) == trace' = [trace EXCEPT ![i] = Append(@, e)]

EmitAll(i, es) == trace' = [trace EXCEPT ![i] = @ \o es]

(* sys.exit(code), or falling off the end of main() (code 0). *)
Exit(i, code) ==
    /\ pc' = [pc EXCEPT ![i] = "done"]
    /\ stack' = [stack EXCEPT ![i] = <<>>]
    /\ exitcode' = [exitcode EXCEPT ![i] = code]

Has(i, e) == \E k \in 1..Len(trace[i]) : trace[i][k] = e

Count(i, e) == Cardinality({k \in 1..Len(trace[i]) : trace[i][k] = e})

(* Position of the first e in the trace, 0 if there is none. *)
First(i, e) == IF Has(i, e)
               THEN CHOOSE k \in 1..Len(trace[i]) :
                      /\ trace[i][k] = e
                      /\ \A j \in 1..(k - 1) : trace[i][j] # e
               ELSE 0

Busy(i) == pc[i] \notin {"idle", "done"}

(***************************************************************************)
(* Initial states: no invocation in progress, no child launched yet, any   *)
(* unrelated processes, any handle file left in the working directory.     *)
(***************************************************************************)
InitFiles == {Absent, File(Garbage)} \cup {File(str(p)) : p \in Pids}

InitProcs == [Pids -> {NoProc} \cup {Proc("run", k) : k \in ForeignKinds}]

(* More of what a handle file may hold: nothing, blanks, a pid with the
   newline an editor leaves, digits followed by a letter. *)
InitFilesWide == InitFiles \cup {File(<<>>), File(<<" ">>),
                                 File(<<"1", "1", "\n">>),
                                 File(<<"1", "1", "x">>)}

InitCommon ==
    /\ procs \in InitProcs
    /\ pc = [i \in CLIs |-> "idle"]
    /\ stack = [i \in CLIs |-> <<>>]
    /\ cmd = [i \in CLIs |-> "none"]
    /\ argv = [i \in CLIs |-> <<>>]
    /\ pid = [i \in CLIs |-> None]
    /\ process = [i \in CLIs |-> "none"]
    /\ child = [i \in CLIs |-> None]
    /\ killed = [i \in CLIs |-> 0]
    /\ exitcode = [i \in CLIs |-> "none"]
    /\ trace = [i \in CLIs |-> <<>>]
    /\ prevStop = "none"

Init == InitCommon /\ PID_FILE \in InitFiles /\ mode = "cli"

InitCalls == InitCommon /\ PID_FILE \in InitFiles /\ mode = "calls"

(***************************************************************************)
(* The operating system.                                                   *)
(***************************************************************************)
(* The Process objects of invocations whose process instance at p is gone. *)
Gone(p) == [i \in CLIs |->
              IF process[i] = "live" /\ pid[i] = p THEN "gone" ELSE process[i]]

(* p is the child of a Popen object (line 265, 274) of an invocation that is
   still running: the invocation never waits for it, so when it exits it
   stays in the process table until the invocation has ended. *)
Attached(p) == \E i \in CLIs : pc[i] \notin {"idle", "done"} /\ child[i] = p

(* A running process exits: it stays a zombie until reaped, or is reaped at
   once (its parent has exited and init reaps it). *)
OsExit(p) ==
    /\ procs[p].st = "run"
    /\ \/ /\ procs' = [procs EXCEPT ![p] = Zombie(p)]
          /\ UNCHANGED process
       \/ /\ ~Attached(p)
          /\ procs' = [procs EXCEPT ![p] = NoProc]
          /\ process' = Gone(p)
    /\ UNCHANGED <<PID_FILE, ctl, meta, pid, child, exitcode, trace, killed>>

OsReap(p) ==
    /\ procs[p].st = "zombie"
    /\ ~Attached(p)
    /\ procs' = [procs EXCEPT ![p] = NoProc]
    /\ process' = Gone(p)
    /\ UNCHANGED <<PID_FILE, ctl, meta, pid, child, exitcode, trace, killed>>

(* An unrelated process starts and is given a free pid (possibly one a
   former process had). *)
OsSpawn(p, k) ==
    /\ procs[p].st = "none"
    /\ procs' = [procs EXCEPT ![p] = Proc("run", k)]
    /\ UNCHANGED <<PID_FILE, ctl, meta, locals, exitcode, trace>>

(***************************************************************************)
(* main(): an invocation starts (lines 1478-1489, 1560-1572, 1619-1634).   *)
(* Invocations run one after the other.                                    *)
(***************************************************************************)
Invocable == CASE mode = "calls" -> Commands \cup {"start_background"}
               [] mode = "crash" -> {"start", "status"}
               [] mode = "files" -> {"status", "stop", "start", "build", "test"}
               [] mode = "overlap" -> {"status", "stop", "start", "build"}
               [] mode = "write" -> {"start_background", "status"}
               [] mode = "stop" -> {"stop"}
               [] mode = "reap" -> {"test"}
               [] OTHER -> Commands

(* Under "files" one invocation is followed from any state earlier ones may
   have left.  Under "overlap" there are two, each started at any moment,
   also while the other is in progress. *)
MayInvoke(i) ==
    IF mode \in {"overlap", "write"} THEN pc[i] = "idle"
    ELSE /\ i = 1
         /\ \A j \in CLIs : ~Busy(j)
         /\ mode \in {"files", "reap"} => pc[i] = "idle"

main(i, c) ==
    /\ MayInvoke(i)
    /\ c \in Invocable
    /\ mode = "write" => (c = "start_background" <=> i = 1)
    /\ cmd' = [cmd EXCEPT ![i] = c]
    /\ argv' = [argv EXCEPT ![i] = <<>>]
    /\ prevStop' = IF cmd[i] = "stop" /\ pc[i] = "done"
                   THEN exitcode[i] ELSE "none"
    /\ trace' = [trace EXCEPT ![i] = <<>>]
    /\ exitcode' = [exitcode EXCEPT ![i] = "none"]
    /\ pid' = [pid EXCEPT ![i] = None]
    /\ process' = [process EXCEPT ![i] = "none"]
    /\ child' = [child EXCEPT ![i] = None]
    /\ killed' = [killed EXCEPT ![i] = 0]
    /\ stack' = [stack EXCEPT ![i] = <<"main_end">>]
    /\ pc' = [pc EXCEPT ![i] =
                CASE c = "stop" -> "stop_background"
                  [] c = "status" -> "check_status"
                  [] c = "backup" -> "backup_database"
                  [] c = "restore" -> "restore_database"
                  [] c = "start_background" -> "start_background"
                  [] OTHER -> "setup"]
    /\ UNCHANGED <<world, mode>>

(* main() returns: the interpreter exits with status 0. *)
main_end(i) ==
    /\ pc[i] = "main_end"
    /\ Exit(i, "zero")
    /\ UNCHANGED <<world, meta, locals, trace>>

(***************************************************************************)
(* get_running_pid(), lines 213-229.  The result is left in pid[i].        *)
(***************************************************************************)
(* 215-216: if not PID_FILE.exists(): return None *)
get_running_pid(i) ==
    /\ pc[i] = "get_running_pid"
    /\ IF PID_FILE.exists
       THEN Goto(i, "grp_read") /\ UNCHANGED <<stack, pid, trace>>
       ELSE /\ Return(i)
            /\ pid' = [pid EXCEPT ![i] = None]
            /\ Emit(i, "handle_absent")
    /\ UNCHANGED <<world, meta, process, child, exitcode, killed>>

(* grp_read whose except clause is missing: the exception ends the
   invocation. *)
grp_read_raises(i) ==
    /\ pc[i] = "grp_read"
    /\ IF PID_FILE.exists /\ IsInt(strip(PID_FILE.text))
       THEN /\ pid' = [pid EXCEPT ![i] = int(strip(PID_FILE.text))]
            /\ Goto(i, "grp_probe")
            /\ UNCHANGED <<stack, trace, exitcode>>
       ELSE /\ pid' = [pid EXCEPT ![i] = None]
            /\ Emit(i, IF PID_FILE.exists THEN "handle_unreadable"
                       ELSE "handle_vanished")
            /\ Exit(i, "nonzero")
    /\ UNCHANGED <<world, meta, process, child, killed>>

(* 219-220: open, read, int(); IOError and ValueError give None (228-229):
   the file is gone since line 215 (FileNotFoundError), its text is no
   integer (ValueError), or it cannot be opened or read (where the handle
   file may be unreadable). *)
grp_read(i) ==
    /\ pc[i] = "grp_read"
    /\ \/ /\ PID_FILE.exists /\ IsInt(strip(PID_FILE.text))
          /\ pid' = [pid EXCEPT ![i] = int(strip(PID_FILE.text))]
          /\ Goto(i, "grp_probe")
          /\ UNCHANGED <<stack, trace>>
       \/ /\ ~(PID_FILE.exists /\ IsInt(strip(PID_FILE.text)))
          /\ pid' = [pid EXCEPT ![i] = None]
          /\ Return(i)
          /\ Emit(i, IF PID_FILE.exists THEN "handle_unreadable"
                     ELSE "handle_vanished")
       \/ /\ mode = "files" /\ PID_FILE.exists
          /\ pid' = [pid EXCEPT ![i] = None]
          /\ Return(i)
          /\ Emit(i, "io_error")
    /\ UNCHANGED <<world, meta, process, child, exitcode, killed>>

(* What the process table holds at p when it is probed (recorded in the
   trace as the fact the probe's verdict is compared with). *)
Probed(p) ==
    IF ~Exists(p) THEN "probed_none"
    ELSE IF procs[p].st = "zombie" THEN "probed_zombie"
    ELSE IF ProbeDenied(p) THEN "probed_denied"
    ELSE "probed_live"

(* grp_probe that takes every handle for stale. *)
grp_probe_stale(i) ==
    /\ pc[i] = "grp_probe"
    /\ Emit(i, Probed(pid[i]))
    /\ Goto(i, "grp_unlink")
    /\ UNCHANGED <<world, meta, stack, locals, exitcode>>

(* 222-223: if is_process_running(pid): return pid *)
grp_probe(i) ==
    /\ pc[i] = "grp_probe"
    /\ Emit(i, Probed(pid[i]))
    /\ IF is_process_running(pid[i])
       THEN Return(i)
       ELSE Goto(i, "grp_unlink") /\ UNCHANGED stack
    /\ UNCHANGED <<world, meta, locals, exitcode>>

(* 226-227: PID_FILE.unlink(); return None.  A missing file raises
   FileNotFoundError, an IOError, which line 228 catches. *)
grp_unlink(i) ==
    /\ pc[i] = "grp_unlink"
    /\ PID_FILE' = Absent
    /\ pid' = [pid EXCEPT ![i] = None]
    /\ Return(i)
    /\ trace' = IF PID_FILE.exists THEN trace
                ELSE [trace EXCEPT ![i] = Append(@, "unlink_missing")]
    /\ UNCHANGED <<procs, meta, process, child, exitcode, killed>>

(***************************************************************************)
(* check_status(), lines 232-241.                                          *)
(***************************************************************************)
check_status(i) ==
    /\ pc[i] = "check_status"
    /\ Call(i, "get_running_pid", "status_got")
    /\ UNCHANGED <<world, meta, locals, exitcode, trace>>

status_got(i) ==
    /\ pc[i] = "status_got"
    /\ Emit(i, IF pid[i] # None THEN "running" ELSE "not_running")
    /\ Return(i)
    /\ UNCHANGED <<world, meta, locals, exitcode>>

(***************************************************************************)
(* stop_background(), lines 299-340.                                       *)
(***************************************************************************)
Emit2(i, e, f) == trace' = [trace EXCEPT ![i] = Append(Append(@, e), f)]

(* What a delivered signal does to the process at p before the next
   statement runs: nothing yet (it ignores the signal, or is slow, or cannot
   be interrupted), or the process exits and is or is not yet reaped. *)
Signalled(p) ==
    IF procs[p].st # "run" THEN {procs}
    ELSE {procs,
          [procs EXCEPT ![p] = Zombie(p)],
          [procs EXCEPT ![p] = NoProc]}

(* psutil raises NoSuchProcess from send_signal/terminate/kill: the process
   of the Process object is gone (its pid is free, or has been reused). *)
RaisesNoSuchProcess(i) == process[i] = "gone" \/ ~Exists(pid[i])

(* psutil raises AccessDenied from send_signal/terminate/kill. *)
RaisesAccessDenied(i) == ~RaisesNoSuchProcess(i) /\ SignalDenied(pid[i])

(* A wait that returns although the process is still there. *)
WaitReturnsEarly(i) == TRUE

(* process.wait(timeout) returns: the process is gone.  (Where psutil polls
   the pid, a pid that was reused at once keeps it waiting: WaitTimesOut.) *)
WaitReturns(i) == process[i] = "gone"

(* process.wait(timeout) raises TimeoutExpired: the pid still exists. *)
WaitTimesOut(i) == Exists(pid[i])

(* 301: pid = get_running_pid() *)
stop_background(i) ==
    /\ pc[i] = "stop_background"
    /\ Emit(i, "stop_call")
    /\ Call(i, "get_running_pid", "stop_got")
    /\ UNCHANGED <<world, meta, locals, exitcode>>

(* stop_got that treats "nothing to stop" as a failure. *)
stop_got_fatal(i) ==
    /\ pc[i] = "stop_got"
    /\ IF pid[i] = None
       THEN Emit(i, "nothing_to_stop") /\ Exit(i, "nonzero")
       ELSE Goto(i, "stop_process") /\ UNCHANGED <<stack, trace, exitcode>>
    /\ UNCHANGED <<world, meta, locals>>

(* 303-307: if not pid: print "No running application found"; return *)
stop_got(i) ==
    /\ pc[i] = "stop_got"
    /\ IF pid[i] = None
       THEN Emit2(i, "nothing_to_stop", "stop_return") /\ Return(i)
       ELSE Goto(i, "stop_process") /\ UNCHANGED <<stack, trace>>
    /\ UNCHANGED <<world, meta, locals, exitcode>>

(* 310: process = psutil.Process(pid) *)
stop_process(i) ==
    /\ pc[i] = "stop_process"
    /\ IF Exists(pid[i])
       THEN /\ process' = [process EXCEPT ![i] = "live"]
            /\ Goto(i, "stop_signal")
            /\ UNCHANGED trace
       ELSE /\ Goto(i, "stop_nsp")
            /\ Emit(i, "no_such_process")
            /\ UNCHANGED process
    /\ UNCHANGED <<world, meta, stack, pid, child, exitcode, killed>>

(* stop_signal that kills at once instead of asking first. *)
stop_signal_forceful(i) ==
    /\ pc[i] = "stop_signal"
    /\ ~RaisesNoSuchProcess(i) /\ ~RaisesAccessDenied(i)
    /\ procs' = [procs EXCEPT ![pid[i]] = NoProc]
    /\ process' = Gone(pid[i])
    /\ Emit(i, "sigkill")
    /\ Goto(i, "stop_wait5")
    /\ UNCHANGED <<PID_FILE, meta, stack, pid, child, exitcode, killed>>

(* 313-316: process.terminate() / process.send_signal(SIGTERM) *)
stop_signal(i) ==
    /\ pc[i] = "stop_signal"
    /\ \/ /\ RaisesNoSuchProcess(i)
          /\ Emit(i, "no_such_process")
          /\ Goto(i, "stop_nsp")
          /\ UNCHANGED <<procs, process>>
       \/ /\ RaisesAccessDenied(i)
          /\ Emit(i, "access_denied")
          /\ Goto(i, "stop_error")
          /\ UNCHANGED <<procs, process>>
       \/ /\ ~RaisesNoSuchProcess(i) /\ ~RaisesAccessDenied(i)
          /\ \E q \in Signalled(pid[i]) :
                /\ procs' = q
                /\ process' = IF q[pid[i]].st = "none" THEN Gone(pid[i])
                              ELSE process
          /\ Emit(i, "sigterm")
          /\ Goto(i, "stop_wait")
    /\ UNCHANGED <<PID_FILE, meta, stack, pid, child, exitcode, killed>>

(* 319-324: process.wait(timeout=10) *)
stop_wait(i) ==
    /\ pc[i] = "stop_wait"
    /\ \/ /\ WaitReturns(i)
          /\ Emit(i, "graceful")
          /\ Goto(i, "stop_cleanup")
       \/ /\ WaitTimesOut(i)
          /\ Emit(i, "timeout")
          /\ Goto(i, "stop_kill")
    /\ UNCHANGED <<world, meta, stack, locals, exitcode>>

(* 325: process.kill() *)
stop_kill(i) ==
    /\ pc[i] = "stop_kill"
    /\ \/ /\ RaisesNoSuchProcess(i)
          /\ Emit(i, "no_such_process")
          /\ Goto(i, "stop_nsp")
          /\ UNCHANGED <<procs, process>>
       \/ /\ RaisesAccessDenied(i)
          /\ Emit(i, "access_denied")
          /\ Goto(i, "stop_error")
          /\ UNCHANGED <<procs, process>>
       \/ /\ ~RaisesNoSuchProcess(i) /\ ~RaisesAccessDenied(i)
          /\ \E q \in Signalled(pid[i]) :
                /\ procs' = q
                /\ process' = IF q[pid[i]].st = "none" THEN Gone(pid[i])
                              ELSE process
          /\ Emit(i, "sigkill")
          /\ Goto(i, "stop_wait5")
    /\ UNCHANGED <<PID_FILE, meta, stack, pid, child, exitcode, killed>>

(* stop_wait5 as a wait without a timeout: it returns when the process is
   gone and not before. *)
stop_wait5_unbounded(i) ==
    /\ pc[i] = "stop_wait5"
    /\ WaitReturns(i)
    /\ Emit(i, "forced")
    /\ Goto(i, "stop_cleanup")
    /\ UNCHANGED <<world, meta, stack, locals, exitcode>>

(* 326-327: process.wait(timeout=5); TimeoutExpired reaches line 338 *)
stop_wait5(i) ==
    /\ pc[i] = "stop_wait5"
    /\ \/ /\ WaitReturns(i)
          /\ Emit(i, "forced")
          /\ Goto(i, "stop_cleanup")
       \/ /\ WaitTimesOut(i)
          /\ Emit(i, "timeout5")
          /\ Goto(i, "stop_error")
    /\ UNCHANGED <<world, meta, stack, locals, exitcode>>

(* stop_cleanup that leaves the handle file in place. *)
stop_cleanup_keeps(i) ==
    /\ pc[i] = "stop_cleanup"
    /\ Emit(i, "stop_return")
    /\ Return(i)
    /\ UNCHANGED <<world, meta, locals, exitcode>>

(* 330: if PID_FILE.exists(): ... *)
stop_cleanup(i) ==
    /\ pc[i] = "stop_cleanup"
    /\ IF PID_FILE.exists
       THEN Goto(i, "stop_unlink") /\ UNCHANGED <<stack, trace>>
       ELSE Emit(i, "stop_return") /\ Return(i)
    /\ UNCHANGED <<world, meta, locals, exitcode>>

(* 331: PID_FILE.unlink(), inside the try: the FileNotFoundError of a file
   that was removed since line 330 reaches `except Exception` (338) *)
stop_unlink(i) ==
    /\ pc[i] = "stop_unlink"
    /\ IF PID_FILE.exists
       THEN /\ PID_FILE' = Absent
            /\ Emit(i, "stop_return")
            /\ Return(i)
       ELSE /\ Emit(i, "cleanup_failed")
            /\ Goto(i, "stop_error")
            /\ UNCHANGED <<PID_FILE, stack>>
    /\ UNCHANGED <<procs, meta, locals, exitcode>>

(* stop_nsp that treats NoSuchProcess like any other exception. *)
stop_nsp_fatal(i) ==
    /\ pc[i] = "stop_nsp"
    /\ Emit(i, "stop_failed")
    /\ Exit(i, "nonzero")
    /\ UNCHANGED <<world, meta, locals>>

(* 333-335: except psutil.NoSuchProcess: print "Process already stopped";
   if PID_FILE.exists(): ... *)
stop_nsp(i) ==
    /\ pc[i] = "stop_nsp"
    /\ IF PID_FILE.exists
       THEN /\ Emit(i, "already_stopped")
            /\ Goto(i, "stop_nsp_unlink")
            /\ UNCHANGED stack
       ELSE /\ Emit2(i, "already_stopped", "stop_return")
            /\ Return(i)
    /\ UNCHANGED <<world, meta, locals, exitcode>>

(* 336: PID_FILE.unlink(), inside the handler of NoSuchProcess: the
   FileNotFoundError of a file that was removed since line 335 is caught by
   no clause of the try and ends the invocation with a traceback (status 1) *)
stop_nsp_unlink(i) ==
    /\ pc[i] = "stop_nsp_unlink"
    /\ IF PID_FILE.exists
       THEN /\ PID_FILE' = Absent
            /\ Emit(i, "stop_return")
            /\ Return(i)
            /\ UNCHANGED exitcode
       ELSE /\ EmitAll(i, <<"cleanup_failed", "uncaught">>)
            /\ Exit(i, "nonzero")
            /\ UNCHANGED PID_FILE
    /\ UNCHANGED <<procs, meta, locals>>

(* stop_error without the sys.exit(1) of line 340. *)
stop_error_returns(i) ==
    /\ pc[i] = "stop_error"
    /\ Emit2(i, "stop_failed", "stop_return")
    /\ Return(i)
    /\ UNCHANGED <<world, meta, locals, exitcode>>

(* stop_error that also removes the handle file before it exits. *)
stop_error_clears(i) ==
    /\ pc[i] = "stop_error"
    /\ PID_FILE' = Absent
    /\ Emit(i, "stop_failed")
    /\ Exit(i, "nonzero")
    /\ UNCHANGED <<procs, meta, locals>>

(* 338-340: except Exception: print "Error stopping application"; sys.exit(1) *)
stop_error(i) ==
    /\ pc[i] = "stop_error"
    /\ Emit(i, "stop_failed")
    /\ Exit(i, "nonzero")
    /\ UNCHANGED <<world, meta, locals>>

(***************************************************************************)
(* start_background(), lines 244-296.                                      *)
(***************************************************************************)
(* 247: existing_pid = get_running_pid() *)
start_background(i) ==
    /\ pc[i] = "start_background"
    /\ Emit(i, "start_call")
    /\ Call(i, "get_running_pid", "start_got")
    /\ UNCHANGED <<world, meta, locals, exitcode>>

(* start_got without the check of existing_pid. *)
start_got_unchecked(i) ==
    /\ pc[i] = "start_got"
    /\ Emit(i, "log_truncated")
    /\ Goto(i, "start_popen")
    /\ UNCHANGED <<world, meta, stack, locals, exitcode>>

(* 248-256: if existing_pid: print "already running"; return.
   Otherwise log_file = open(LOG_FILE, 'w'), which truncates the log. *)
start_got(i) ==
    /\ pc[i] = "start_got"
    /\ IF pid[i] # None
       THEN Emit(i, "already_running") /\ Return(i)
       ELSE Emit(i, "log_truncated") /\ Goto(i, "start_popen")
                                    /\ UNCHANGED stack
    /\ UNCHANGED <<world, meta, locals, exitcode>>

(* 263-280: process = subprocess.Popen(...): the child gets a free pid *)
start_popen(i) ==
    /\ pc[i] = "start_popen"
    /\ \E p \in Pids :
          /\ ~Exists(p)
          /\ procs' = [procs EXCEPT ![p] = Proc("run", "child")]
          /\ child' = [child EXCEPT ![i] = p]
    /\ Emit(i, "launch")
    /\ Goto(i, "start_open")
    /\ UNCHANGED <<PID_FILE, meta, stack, pid, process, exitcode, killed>>

(* 283: open(PID_FILE, 'w') creates or truncates the handle file *)
start_open(i) ==
    /\ pc[i] = "start_open"
    /\ PID_FILE' = File(<<>>)
    /\ Goto(i, "start_write")
    /\ UNCHANGED <<procs, meta, stack, locals, exitcode, trace>>

(* start_write that writes the text one character per write call. *)
start_write_in_parts(i) ==
    /\ pc[i] = "start_write"
    /\ IF PID_FILE.exists /\ Len(PID_FILE.text) + 1 < Len(str(child[i]))
       THEN /\ PID_FILE' = File(SubSeq(str(child[i]), 1, Len(PID_FILE.text) + 1))
            /\ UNCHANGED <<pc, trace>>
       ELSE /\ PID_FILE' = IF PID_FILE.exists THEN File(str(child[i]))
                            ELSE PID_FILE
            /\ Emit(i, "pid_written")
            /\ Goto(i, "start_sleep")
    /\ UNCHANGED <<procs, meta, stack, locals, exitcode>>

(* start_write whose text is still in the buffer when the sleep begins. *)
start_write_unflushed(i) ==
    /\ pc[i] = "start_write"
    /\ Emit(i, "pid_written")
    /\ Goto(i, "start_sleep")
    /\ UNCHANGED <<world, meta, stack, locals, exitcode>>

(* 284-287: f.write(str(process.pid)), flushed when the file is closed.  The
   text goes to the file that line 283 opened: if that file has been
   unlinked since, the directory still has no handle file afterwards. *)
start_write(i) ==
    /\ pc[i] = "start_write"
    /\ PID_FILE' = IF PID_FILE.exists THEN File(str(child[i])) ELSE PID_FILE
    /\ Emit(i, "pid_written")
    /\ Goto(i, "start_sleep")
    /\ UNCHANGED <<procs, meta, stack, locals, exitcode>>

(* 290: time.sleep(3) *)
start_sleep(i) ==
    /\ pc[i] = "start_sleep"
    /\ Emit(i, "slept")
    /\ Goto(i, "start_check")
    /\ UNCHANGED <<world, meta, stack, locals, exitcode>>

(* What has become of the launched child p when it is probed after the sleep
   (recorded in the trace as the fact the report is compared with). *)
ChildState(p) == IF procs[p] = Proc("run", "child") THEN "child_running"
                 ELSE "child_exited"

(* start_check that removes the handle file of a child that failed. *)
start_check_clears(i) ==
    /\ pc[i] = "start_check"
    /\ Emit2(i, ChildState(child[i]),
             IF is_process_running(child[i]) THEN "started" ELSE "start_failed")
    /\ PID_FILE' = IF is_process_running(child[i]) THEN PID_FILE ELSE Absent
    /\ Return(i)
    /\ UNCHANGED <<procs, meta, locals, exitcode>>

(* 292-296: if is_process_running(process.pid): print running, else print
   "failed to start" and the tail command for the log file *)
start_check(i) ==
    /\ pc[i] = "start_check"
    /\ Emit2(i, ChildState(child[i]),
             IF is_process_running(child[i]) THEN "started" ELSE "start_failed")
    /\ Return(i)
    /\ UNCHANGED <<world, meta, locals, exitcode>>

(***************************************************************************)
(* main(), lines 1619-1634, and run_dotnet_command(), lines 343-448, for   *)
(* build, start and test.                                                  *)
(***************************************************************************)
(* 1624-1631: setup_tailwindcss(), check_dotnet(), install_dotnet(); a failed
   download or installation ends the invocation (lines 82, 186). *)
setup(i) ==
    /\ pc[i] = "setup"
    /\ \/ /\ Goto(i, "run_dotnet_command")
          /\ UNCHANGED <<stack, exitcode, trace>>
       \/ /\ Emit(i, "setup_failed")
          /\ Exit(i, "nonzero")
    /\ UNCHANGED <<world, meta, locals>>

(* The pre-step of lines 376, 390, 405 belongs to build, start and test. *)
PreStepCommands == {"build", "start", "test"}

(* 346-433: the branch of the command; for build, start and test it starts
   with pid = get_running_pid() (376, 390, 405) *)
run_dotnet_command(i) ==
    /\ pc[i] = "run_dotnet_command"
    /\ IF cmd[i] \in PreStepCommands
       THEN Call(i, "get_running_pid", "rdc_got")
       ELSE /\ Goto(i, IF cmd[i] = "publish" THEN "rdc_publish"
                       ELSE "rdc_foreground")
            /\ UNCHANGED stack
    /\ UNCHANGED <<world, meta, locals, exitcode, trace>>

(* rdc_got without the pre-flight stop. *)
rdc_got_no_stop(i) ==
    /\ pc[i] = "rdc_got"
    /\ Goto(i, "rdc_stopped")
    /\ UNCHANGED <<world, meta, stack, locals, exitcode, trace>>

(* 377-379, 391-393, 406-408: if pid: stop_background() *)
rdc_got(i) ==
    /\ pc[i] = "rdc_got"
    /\ IF pid[i] # None
       THEN Call(i, "stop_background", "rdc_stopped")
       ELSE Goto(i, "rdc_stopped") /\ UNCHANGED stack
    /\ UNCHANGED <<world, meta, locals, exitcode, trace>>

(* rdc_stopped that goes from the stop straight to the tests. *)
rdc_stopped_no_reap(i) ==
    /\ pc[i] = "rdc_stopped"
    /\ Goto(i, IF cmd[i] = "test" THEN "rdc_test" ELSE "rdc_build")
    /\ UNCHANGED <<world, meta, stack, locals, exitcode, trace>>

(* 381, 396, 411: what follows the pre-step *)
rdc_stopped(i) ==
    /\ pc[i] = "rdc_stopped"
    /\ Goto(i, IF cmd[i] = "test" THEN "kill_test_processes" ELSE "rdc_build")
    /\ UNCHANGED <<world, meta, stack, locals, exitcode, trace>>

(* The external toolchain is an opaque command: it is invoked and completes
   with status zero ("tool_zero") or not ("tool_nonzero") within one step. *)
ToolStatuses == {"tool_zero", "tool_nonzero"}

(* 446-448: except subprocess.CalledProcessError: print "Failed to ...";
   sys.exit(1) *)
CalledProcessError(i, tool) ==
    /\ EmitAll(i, <<tool, "tool_nonzero", "command_failed">>)
    /\ Exit(i, "nonzero")

(* rdc_build without check=True: the status of the build is not looked at. *)
rdc_build_unchecked(i) ==
    /\ pc[i] = "rdc_build"
    /\ \E st \in ToolStatuses : EmitAll(i, <<"toolchain_build", st>>)
    /\ IF cmd[i] = "start"
       THEN Call(i, "start_background", "rdc_end")
       ELSE Goto(i, "rdc_end") /\ UNCHANGED stack
    /\ UNCHANGED <<world, meta, locals, exitcode>>

(* 382-386, 397-401: subprocess.run([dotnet, "build", ...], check=True),
   then for start: start_background(dotnet_path) *)
rdc_build(i) ==
    /\ pc[i] = "rdc_build"
    /\ \/ /\ EmitAll(i, <<"toolchain_build", "tool_zero">>)
          /\ IF cmd[i] = "start"
             THEN Call(i, "start_background", "rdc_end")
             ELSE Goto(i, "rdc_end") /\ UNCHANGED stack
          /\ UNCHANGED exitcode
       \/ CalledProcessError(i, "toolchain_build")
    /\ UNCHANGED <<world, meta, locals>>

(* 346-352: subprocess.run([dotnet, "publish", ...], check=True) *)
rdc_publish(i) ==
    /\ pc[i] = "rdc_publish"
    /\ \/ /\ EmitAll(i, <<"toolchain_publish", "tool_zero">>)
          /\ Goto(i, "rdc_end")
          /\ UNCHANGED <<stack, exitcode>>
       \/ CalledProcessError(i, "toolchain_publish")
    /\ UNCHANGED <<world, meta, locals>>

(* 354-372: watch and run: subprocess.run([dotnet, "watch" | "run", ...]) in
   the foreground, without check=True: the command completes with any status,
   or the operator interrupts it (KeyboardInterrupt, caught at line 441).
   The interrupt goes to the terminal's foreground process group; the child of
   start_background is in a session of its own (line 279). *)
rdc_foreground(i) ==
    /\ pc[i] = "rdc_foreground"
    /\ \/ /\ \E st \in ToolStatuses : EmitAll(i, <<"toolchain_foreground", st>>)
          /\ Goto(i, "rdc_end")
       \/ /\ EmitAll(i, <<"toolchain_foreground", "KeyboardInterrupt">>)
          /\ Goto(i, "rdc_interrupt")
    /\ UNCHANGED <<world, meta, stack, locals, exitcode>>

(* The KeyboardInterrupt handler stopping the supervised process on its way
   out. *)
rdc_interrupt_stops(i) ==
    /\ pc[i] = "rdc_interrupt"
    /\ PID_FILE' = Absent
    /\ Emit(i, "shutdown_requested")
    /\ Exit(i, "zero")
    /\ UNCHANGED <<procs, meta, locals>>

(* 441-444: except KeyboardInterrupt: print "Shutdown requested. Exiting
   cleanly..."; sys.exit(0) *)
rdc_interrupt(i) ==
    /\ pc[i] = "rdc_interrupt"
    /\ Emit(i, "shutdown_requested")
    /\ Exit(i, "zero")
    /\ UNCHANGED <<world, meta, locals>>

(* proc.info['cmdline'] or [] (192-194): psutil gives None for the command
   line of a zombie and of a process that denies access. *)
info_cmdline(p) == IF procs[p].st = "zombie" \/ ProbeDenied(p) THEN <<>>
                   ELSE cmdline(procs[p].kind)

(* 192-194: the processes that psutil.process_iter yields whose command line
   holds a marker. *)
Matching == {p \in Pids : Exists(p) /\ info_cmdline(p) \in MarkedLines}

(* What proc.kill() (197) does for the process p that was running when its
   command line was read, with what becomes of p: the call returns
   ("kill_ok"), raises AccessDenied ("kill_denied"), or raises NoSuchProcess
   ("kill_vanished": p exited and was reaped between lines 192 and 197). *)
KillOutcomes(p) ==
    (IF SignalDenied(p) THEN {<<"kill_denied", procs[p]>>}
     ELSE {<<"kill_ok", Zombie(p)>>})
    \cup {<<"kill_vanished", NoProc>>}

(* What the turns of the loop for the processes of M may do: one outcome of
   proc.kill() for each of them. *)
Turns(M) == {f \in [M -> UNION {KillOutcomes(p) : p \in M}] :
               \A p \in M : f[p] \in KillOutcomes(p)}

(* The Process objects of invocations after the turns f: that of a process
   that is gone is stale. *)
Vanished(f) == [j \in CLIs |->
                  IF process[j] = "live" /\ pid[j] \in DOMAIN f
                     /\ f[pid[j]][2] = NoProc
                  THEN "gone" ELSE process[j]]

(* The process table after the turns f. *)
Scanned(f) == [p \in Pids |-> IF p \in DOMAIN f THEN f[p][2] ELSE procs[p]]

(* What the turns f did, in the order of the pids (that of process_iter). *)
RECURSIVE Outcomes(_)
Outcomes(f) ==
    IF DOMAIN f = {} THEN <<>>
    ELSE LET p == CHOOSE x \in DOMAIN f : \A y \in DOMAIN f : x <= y
         IN  <<f[p][1]>> \o Outcomes([q \in DOMAIN f \ {p} |-> f[q]])

(* 198, 201: killed += 1 follows each proc.kill() that returns. *)
KilledCount(f) == Cardinality({p \in DOMAIN f : f[p][1] = "kill_ok"})

(* The processes of M that process_iter yields before the invocation's own
   process, which is in the table at the place of its pid. *)
Before(M) == {{p \in M : p < c} : c \in Pids \cup {MaxPid + 1}}

(* A scan that ends, as if nothing were left, with the first kill that
   fails. *)
LoopEnds_at_failure(M) ==
    {f \in UNION {Turns(B) : B \in Before(M)} :
       \/ DOMAIN f = M /\ \A p \in M : f[p][1] = "kill_ok"
       \/ \E p \in DOMAIN f :
             /\ f[p][1] # "kill_ok"
             /\ \A q \in DOMAIN f : q <= p /\ (q < p => f[q][1] = "kill_ok")}

(* 192-200: the turns of a loop that comes to its end: every process of M
   has had one, whatever its kill did (199-200: except (NoSuchProcess,
   AccessDenied): pass). *)
LoopEnds(M) == Turns(M)

(* 189-201, 411-413: kill_test_processes() and the print of its count.  The
   loop has a turn for each process of the table, that of the invocation
   itself among them: when its own command line holds a marker, proc.kill()
   sends SIGKILL to the invocation, after the turns for the processes before
   it.  (sys.argv is fixed from the start of the invocation; the model
   settles it where the program first depends on it: here whether it holds a
   marker, at line 416 the rest.) *)
kill_test_processes(i) ==
    /\ pc[i] = "kill_test_processes"
    /\ \/ /\ Filters \ MarkedFilters # {}
          /\ \E f \in LoopEnds(Matching) :
                /\ procs' = Scanned(f)
                /\ process' = Vanished(f)
                /\ killed' = [killed EXCEPT ![i] = KilledCount(f)]
                /\ EmitAll(i, <<"reap">> \o Outcomes(f) \o <<"reap_done">> \o
                                 IF KilledCount(f) > 0 THEN <<"cleaned_up">>
                                 ELSE <<>>)
          /\ Goto(i, "rdc_test")
          /\ UNCHANGED <<argv, stack, exitcode>>
       \/ /\ \E a \in MarkedFilters : argv' = [argv EXCEPT ![i] = a]
          /\ \E B \in Before(Matching) : \E f \in Turns(B) :
                /\ procs' = Scanned(f)
                /\ process' = Vanished(f)
                /\ killed' = [killed EXCEPT ![i] = KilledCount(f)]
                /\ EmitAll(i, <<"reap">> \o Outcomes(f) \o <<"self_killed">>)
          /\ Exit(i, "killed")
    /\ UNCHANGED <<PID_FILE, mode, cmd, prevStop, pid, child>>

(* 416-425: test_filter = sys.argv[2] if len(sys.argv) > 2 else None;
   if test_filter: test_cmd.extend(["--filter", test_filter]) *)
test_cmd(a) == IF Len(a) > 0 /\ a[1] # "" THEN "toolchain_test_filter"
               ELSE "toolchain_test"

(* 416-428: sys.argv[2:] is read here (the invocation has outlived the scan
   of the reaper: its command line holds no marker);
   subprocess.run(test_cmd, check=True) *)
rdc_test(i) ==
    /\ pc[i] = "rdc_test"
    /\ \E a \in Filters \ MarkedFilters :
          /\ argv' = [argv EXCEPT ![i] = a]
          /\ \/ /\ EmitAll(i, <<test_cmd(a), "tool_zero">>)
                /\ Goto(i, "rdc_end")
                /\ UNCHANGED <<stack, exitcode>>
             \/ CalledProcessError(i, test_cmd(a))
    /\ UNCHANGED <<world, mode, cmd, prevStop, locals>>

(* run_dotnet_command returns to main *)
rdc_end(i) ==
    /\ pc[i] = "rdc_end"
    /\ Return(i)
    /\ UNCHANGED <<world, meta, locals, exitcode, trace>>

(***************************************************************************)
(* backup_database(), lines 1111-1165, and restore_database(), 1168-1217.  *)
(***************************************************************************)
(* 1119-1125: without a database there is nothing to back up; otherwise
   pid = get_running_pid() *)
backup_database(i) ==
    /\ pc[i] = "backup_database"
    /\ \/ /\ Emit(i, "nothing_to_backup")
          /\ Return(i)
       \/ /\ Call(i, "get_running_pid", "backup_got")
          /\ UNCHANGED trace
    /\ UNCHANGED <<world, meta, locals, exitcode>>

(* backup_got without the stop. *)
backup_got_no_stop(i) ==
    /\ pc[i] = "backup_got"
    /\ Goto(i, "backup_copy")
    /\ UNCHANGED <<world, meta, stack, locals, exitcode, trace>>

(* 1126-1128: if pid: stop_background() *)
backup_got(i) ==
    /\ pc[i] = "backup_got"
    /\ IF pid[i] # None
       THEN Call(i, "stop_background", "backup_sleep")
       ELSE Goto(i, "backup_copy") /\ UNCHANGED stack
    /\ UNCHANGED <<world, meta, locals, exitcode, trace>>

(* 1129: time.sleep(1) *)
backup_sleep(i) ==
    /\ pc[i] = "backup_sleep"
    /\ Goto(i, "backup_copy")
    /\ UNCHANGED <<world, meta, stack, locals, exitcode, trace>>

(* 1131-1165: the database files are copied into the backup directory *)
backup_copy(i) ==
    /\ pc[i] = "backup_copy"
    /\ Emit(i, "db_copied")
    /\ Return(i)
    /\ UNCHANGED <<world, meta, locals, exitcode>>

(* 1178-1190: without the backup there is nothing to restore; otherwise
   pid = get_running_pid() *)
restore_database(i) ==
    /\ pc[i] = "restore_database"
    /\ \/ /\ Emit(i, "backup_not_found")
          /\ Return(i)
       \/ /\ Call(i, "get_running_pid", "restore_got")
          /\ UNCHANGED trace
    /\ UNCHANGED <<world, meta, locals, exitcode>>

(* 1191-1193: if pid: stop_background() *)
restore_got(i) ==
    /\ pc[i] = "restore_got"
    /\ IF pid[i] # None
       THEN Call(i, "stop_background", "restore_sleep")
       ELSE Goto(i, "restore_copy") /\ UNCHANGED stack
    /\ UNCHANGED <<world, meta, locals, exitcode, trace>>

(* 1194: time.sleep(1) *)
restore_sleep(i) ==
    /\ pc[i] = "restore_sleep"
    /\ Goto(i, "restore_copy")
    /\ UNCHANGED <<world, meta, stack, locals, exitcode, trace>>

(* 1196-1217: the database files are deleted, then copied from the backup *)
restore_copy(i) ==
    /\ pc[i] = "restore_copy"
    /\ Emit2(i, "db_deleted", "db_restored")
    /\ Return(i)
    /\ UNCHANGED <<world, meta, locals, exitcode>>

(***************************************************************************)
(* The specifications.                                                     *)
(***************************************************************************)
Os ==
    \/ \E p \in Pids : OsExit(p)
    \/ \E p \in Pids : OsReap(p)
    \/ \E p \in Pids, k \in ForeignKinds : OsSpawn(p, k)

Step(i) ==
    \/ \E c \in Invocable : main(i, c)
    \/ main_end(i)
    \/ get_running_pid(i)
    \/ grp_read(i)
    \/ grp_probe(i)
    \/ grp_unlink(i)
    \/ check_status(i)
    \/ status_got(i)
    \/ stop_background(i)
    \/ stop_got(i)
    \/ stop_process(i)
    \/ stop_signal(i)
    \/ stop_wait(i)
    \/ stop_kill(i)
    \/ stop_wait5(i)
    \/ stop_cleanup(i)
    \/ stop_unlink(i)
    \/ stop_nsp(i)
    \/ stop_nsp_unlink(i)
    \/ stop_error(i)
    \/ start_background(i)
    \/ start_got(i)
    \/ start_popen(i)
    \/ start_open(i)
    \/ start_write(i)
    \/ start_sleep(i)
    \/ start_check(i)
    \/ setup(i)
    \/ run_dotnet_command(i)
    \/ rdc_got(i)
    \/ rdc_stopped(i)
    \/ rdc_build(i)
    \/ kill_test_processes(i)
    \/ rdc_test(i)
    \/ rdc_publish(i)
    \/ rdc_foreground(i)
    \/ rdc_interrupt(i)
    \/ rdc_end(i)
    \/ backup_database(i)
    \/ backup_got(i)
    \/ backup_sleep(i)
    \/ backup_copy(i)
    \/ restore_database(i)
    \/ restore_got(i)
    \/ restore_sleep(i)
    \/ restore_copy(i)

Next == Os \/ \E i \in CLIs : Step(i)

Spec == Init /\ [][Next]_vars

(***************************************************************************)
(* Invocations that do not run to their end: the CLI is killed (or crashes)*)
(* at any statement, or the operator interrupts it inside                  *)
(* run_dotnet_command (the try of lines 345-439).                          *)
(***************************************************************************)
(* The invocation ends where it is; the trace keeps the statement it was at. *)
Killed(i) ==
    /\ Busy(i)
    /\ EmitAll(i, <<pc[i], "killed">>)
    /\ Exit(i, "killed")
    /\ UNCHANGED <<world, meta, locals>>

(* The statements inside the try of run_dotnet_command, lines 345-439. *)
InTry(i) ==
    /\ cmd[i] \in PreStepCommands \cup {"publish", "watch", "run"}
    /\ pc[i] \notin {"idle", "done", "setup", "main_end", "rdc_interrupt"}

(* 441: KeyboardInterrupt raised at a statement of the try (stop_background's
   `except Exception` does not catch it). *)
Interrupted(i) ==
    /\ InTry(i)
    /\ EmitAll(i, <<pc[i], "KeyboardInterrupt">>)
    /\ Goto(i, "rdc_interrupt")
    /\ UNCHANGED <<world, meta, stack, locals, exitcode>>

(***************************************************************************)
(* A handle file that others touch: someone removes it at any moment, or   *)
(* it cannot be opened or read.                                            *)
(***************************************************************************)
OsUnlink ==
    /\ PID_FILE.exists
    /\ PID_FILE' = Absent
    /\ UNCHANGED <<procs, ctl, meta, locals, exitcode, trace>>

(* The statements of status, stop, start, build and test. *)
StepFiles(i) ==
    \/ \E c \in Invocable : main(i, c)
    \/ main_end(i)
    \/ get_running_pid(i)
    \/ grp_read(i)
    \/ grp_probe(i)
    \/ grp_unlink(i)
    \/ check_status(i)
    \/ status_got(i)
    \/ stop_background(i)
    \/ stop_got(i)
    \/ stop_process(i)
    \/ stop_signal(i)
    \/ stop_wait(i)
    \/ stop_kill(i)
    \/ stop_wait5(i)
    \/ stop_cleanup(i)
    \/ stop_unlink(i)
    \/ stop_nsp(i)
    \/ stop_nsp_unlink(i)
    \/ stop_error(i)
    \/ start_background(i)
    \/ start_got(i)
    \/ start_popen(i)
    \/ start_open(i)
    \/ start_write(i)
    \/ start_sleep(i)
    \/ start_check(i)
    \/ setup(i)
    \/ run_dotnet_command(i)
    \/ rdc_got(i)
    \/ rdc_stopped(i)
    \/ rdc_build(i)
    \/ kill_test_processes(i)
    \/ rdc_test(i)
    \/ rdc_end(i)

NextFiles == Os \/ OsUnlink \/ \E i \in CLIs : StepFiles(i)

(* What earlier invocations and the handle file's removal may have left:
   children of earlier starts among the processes, any handle file. *)
InitProcsLeft ==
    [Pids -> {NoProc} \cup {Proc("run", k) : k \in ForeignKinds \cup {"child"}}]

InitForFiles ==
    /\ PID_FILE \in InitFilesWide
    /\ mode = "files"
    /\ procs \in InitProcsLeft
    /\ pc = [i \in CLIs |-> "idle"]
    /\ stack = [i \in CLIs |-> <<>>]
    /\ cmd = [i \in CLIs |-> "none"]
    /\ argv = [i \in CLIs |-> <<>>]
    /\ pid = [i \in CLIs |-> None]
    /\ process = [i \in CLIs |-> "none"]
    /\ child = [i \in CLIs |-> None]
    /\ killed = [i \in CLIs |-> 0]
    /\ exitcode = [i \in CLIs |-> "none"]
    /\ trace = [i \in CLIs |-> <<>>]
    /\ prevStop = "none"

SpecFiles == InitForFiles /\ [][NextFiles]_vars

(***************************************************************************)
(* Two invocations in the same working directory that overlap: each is one *)
(* of status, stop, start and build, and their statements interleave in    *)
(* any order.                                                              *)
(***************************************************************************)
StepOverlap(i) ==
    \/ \E c \in Invocable : main(i, c)
    \/ main_end(i)
    \/ get_running_pid(i)
    \/ grp_read(i)
    \/ grp_probe(i)
    \/ grp_unlink(i)
    \/ check_status(i)
    \/ status_got(i)
    \/ stop_background(i)
    \/ stop_got(i)
    \/ stop_process(i)
    \/ stop_signal(i)
    \/ stop_wait(i)
    \/ stop_kill(i)
    \/ stop_wait5(i)
    \/ stop_cleanup(i)
    \/ stop_unlink(i)
    \/ stop_nsp(i)
    \/ stop_nsp_unlink(i)
    \/ stop_error(i)
    \/ start_background(i)
    \/ start_got(i)
    \/ start_popen(i)
    \/ start_open(i)
    \/ start_write(i)
    \/ start_sleep(i)
    \/ start_check(i)
    \/ setup(i)
    \/ run_dotnet_command(i)
    \/ rdc_got(i)
    \/ rdc_stopped(i)
    \/ rdc_build(i)
    \/ rdc_end(i)

(* The processes of this specification are the launched children. *)
OsOverlap ==
    \/ \E p \in Pids : OsExit(p)
    \/ \E p \in Pids : OsReap(p)

NextOverlap == OsOverlap \/ \E i \in CLIs : StepOverlap(i)

(* Nothing is managed, or a child of an earlier start is running and the
   handle file names it. *)
InitOverlap ==
    /\ mode = "overlap"
    /\ \/ /\ PID_FILE = Absent
          /\ procs = [p \in Pids |-> NoProc]
       \/ \E q \in Pids :
             /\ PID_FILE = File(str(q))
             /\ procs = [p \in Pids |-> IF p = q THEN Proc("run", "child")
                                        ELSE NoProc]
    /\ pc = [i \in CLIs |-> "idle"]
    /\ stack = [i \in CLIs |-> <<>>]
    /\ cmd = [i \in CLIs |-> "none"]
    /\ argv = [i \in CLIs |-> <<>>]
    /\ pid = [i \in CLIs |-> None]
    /\ process = [i \in CLIs |-> "none"]
    /\ child = [i \in CLIs |-> None]
    /\ killed = [i \in CLIs |-> 0]
    /\ exitcode = [i \in CLIs |-> "none"]
    /\ trace = [i \in CLIs |-> <<>>]
    /\ prevStop = "none"

SpecOverlap == InitOverlap /\ [][NextOverlap]_vars

(***************************************************************************)
(* A call of start_background() (invocation 1) while another invocation,   *)
(* a status (invocation 2), reads the handle file with get_running_pid().  *)
(***************************************************************************)
StepWrite(i) ==
    \/ \E c \in Invocable : main(i, c)
    \/ main_end(i)
    \/ get_running_pid(i)
    \/ grp_read(i)
    \/ grp_probe(i)
    \/ grp_unlink(i)
    \/ check_status(i)
    \/ status_got(i)
    \/ start_background(i)
    \/ start_got(i)
    \/ start_popen(i)
    \/ start_open(i)
    \/ start_write(i)
    \/ start_sleep(i)
    \/ start_check(i)

NextWrite == Os \/ \E i \in CLIs : StepWrite(i)

InitWrite ==
    /\ PID_FILE \in InitFiles
    /\ mode = "write"
    /\ procs \in InitProcsLeft
    /\ pc = [i \in CLIs |-> "idle"]
    /\ stack = [i \in CLIs |-> <<>>]
    /\ cmd = [i \in CLIs |-> "none"]
    /\ argv = [i \in CLIs |-> <<>>]
    /\ pid = [i \in CLIs |-> None]
    /\ process = [i \in CLIs |-> "none"]
    /\ child = [i \in CLIs |-> None]
    /\ killed = [i \in CLIs |-> 0]
    /\ exitcode = [i \in CLIs |-> "none"]
    /\ trace = [i \in CLIs |-> <<>>]
    /\ prevStop = "none"

SpecWrite == InitWrite /\ [][NextWrite]_vars

(***************************************************************************)
(* `stop` invocations, one after the other, from any state earlier         *)
(* invocations may have left.  An invocation in progress goes on to its    *)
(* next statement (the interpreter is not suspended for ever); nothing is  *)
(* assumed of the other processes: a process that was signalled may never  *)
(* exit.                                                                   *)
(***************************************************************************)
StepStop(i) ==
    \/ \E c \in Invocable : main(i, c)
    \/ main_end(i)
    \/ get_running_pid(i)
    \/ grp_read(i)
    \/ grp_probe(i)
    \/ grp_unlink(i)
    \/ stop_background(i)
    \/ stop_got(i)
    \/ stop_process(i)
    \/ stop_signal(i)
    \/ stop_wait(i)
    \/ stop_kill(i)
    \/ stop_wait5(i)
    \/ stop_cleanup(i)
    \/ stop_unlink(i)
    \/ stop_nsp(i)
    \/ stop_nsp_unlink(i)
    \/ stop_error(i)

NextStop == Os \/ \E i \in CLIs : StepStop(i)

(* The statements of the invocations that are in progress. *)
Running == \E i \in CLIs : Busy(i) /\ StepStop(i)

InitStop ==
    /\ PID_FILE \in InitFiles
    /\ mode = "stop"
    /\ procs \in InitProcsLeft
    /\ pc = [i \in CLIs |-> "idle"]
    /\ stack = [i \in CLIs |-> <<>>]
    /\ cmd = [i \in CLIs |-> "none"]
    /\ argv = [i \in CLIs |-> <<>>]
    /\ pid = [i \in CLIs |-> None]
    /\ process = [i \in CLIs |-> "none"]
    /\ child = [i \in CLIs |-> None]
    /\ killed = [i \in CLIs |-> 0]
    /\ exitcode = [i \in CLIs |-> "none"]
    /\ trace = [i \in CLIs |-> <<>>]
    /\ prevStop = "none"

SpecStop == InitStop /\ [][NextStop]_vars /\ WF_vars(Running)

(* The statements of `test`. *)
StepReap(i) ==
    \/ \E c \in Invocable : main(i, c)
    \/ main_end(i)
    \/ get_running_pid(i)
    \/ grp_read(i)
    \/ grp_probe(i)
    \/ grp_unlink(i)
    \/ stop_background(i)
    \/ stop_got(i)
    \/ stop_process(i)
    \/ stop_signal(i)
    \/ stop_wait(i)
    \/ stop_kill(i)
    \/ stop_wait5(i)
    \/ stop_cleanup(i)
    \/ stop_unlink(i)
    \/ stop_nsp(i)
    \/ stop_nsp_unlink(i)
    \/ stop_error(i)
    \/ setup(i)
    \/ run_dotnet_command(i)
    \/ rdc_got(i)
    \/ rdc_stopped(i)
    \/ kill_test_processes(i)
    \/ rdc_test(i)
    \/ rdc_end(i)

NextReap == OsOverlap \/ \E i \in CLIs : StepReap(i)

(* One `test` invocation, from what earlier invocations may have left: any
   handle file, children of earlier starts and workers of earlier test runs
   among the processes, which may exit while it runs. *)
InitReap ==
    /\ PID_FILE \in InitFiles
    /\ mode = "reap"
    /\ procs \in [Pids -> {NoProc} \cup
                    {Proc("run", k) : k \in {"user", "child"} \cup TestKinds}]
    /\ pc = [i \in CLIs |-> "idle"]
    /\ stack = [i \in CLIs |-> <<>>]
    /\ cmd = [i \in CLIs |-> "none"]
    /\ argv = [i \in CLIs |-> <<>>]
    /\ pid = [i \in CLIs |-> None]
    /\ process = [i \in CLIs |-> "none"]
    /\ child = [i \in CLIs |-> None]
    /\ killed = [i \in CLIs |-> 0]
    /\ exitcode = [i \in CLIs |-> "none"]
    /\ trace = [i \in CLIs |-> <<>>]
    /\ prevStop = "none"

SpecReap == InitReap /\ [][NextReap]_vars

(* The statements of `start` and `status`. *)
StepCrash(i) ==
    \/ \E c \in Invocable : main(i, c)
    \/ main_end(i)
    \/ get_running_pid(i)
    \/ grp_read(i)
    \/ grp_probe(i)
    \/ grp_unlink(i)
    \/ check_status(i)
    \/ status_got(i)
    \/ stop_background(i)
    \/ stop_got(i)
    \/ stop_process(i)
    \/ stop_signal(i)
    \/ stop_wait(i)
    \/ stop_kill(i)
    \/ stop_wait5(i)
    \/ stop_cleanup(i)
    \/ stop_unlink(i)
    \/ stop_nsp(i)
    \/ stop_nsp_unlink(i)
    \/ stop_error(i)
    \/ start_background(i)
    \/ start_got(i)
    \/ start_popen(i)
    \/ start_open(i)
    \/ start_write(i)
    \/ start_sleep(i)
    \/ start_check(i)
    \/ setup(i)
    \/ run_dotnet_command(i)
    \/ rdc_got(i)
    \/ rdc_stopped(i)
    \/ rdc_build(i)
    \/ rdc_interrupt(i)
    \/ rdc_end(i)
    \/ Killed(i)
    \/ Interrupted(i)

NextCrash == Os \/ \E i \in CLIs : StepCrash(i)

InitCrash == InitCommon /\ PID_FILE \in InitFiles /\ mode = "crash"

SpecCrash == InitCrash /\ [][NextCrash]_vars

SpecCalls == InitCalls /\ [][Next]_vars

(***************************************************************************)
(* Properties.                                                             *)
(***************************************************************************)
(* e occurs in the trace of i after position k *)
HasAfter(i, e, k) == \E j \in (k + 1)..Len(trace[i]) : trace[i][j] = e

Done(i) == pc[i] = "done"

(* The handle file holds the decimal text of pid p. *)
HandleNames(p) ==
    PID_FILE.exists /\ IsInt(strip(PID_FILE.text)) /\ int(strip(PID_FILE.text)) = p

(* C1: start exclusivity.  When start_background() is called and
   get_running_pid() finds in the handle file the pid of a process that is
   running, start_background() launches no child, does not truncate the log,
   leaves the handle file naming that pid, and returns without an error
   exit. *)
C1_StartExclusivity ==
    \A i \in CLIs :
        LET k == First(i, "start_call") IN
        (k > 0 /\ HasAfter(i, "probed_live", k)) =>
            /\ ~Has(i, "launch")
            /\ ~Has(i, "log_truncated")
            /\ ~Has(i, "pid_written")
            /\ HandleNames(pid[i])
            /\ exitcode[i] # "nonzero"
            /\ pc[i] \in {"start_got", "main_end", "rdc_end", "done"}

C1_Witness ==
    \E i \in CLIs :
        /\ Done(i) /\ cmd[i] = "start_background"
        /\ Has(i, "already_running")
        /\ exitcode[i] = "zero"
        /\ LiveChildren # {}

(* C2: single instance.  At every moment of every sequence of CLI
   invocations, at most one child launched by start_background() is
   alive. *)
C2_SingleInstance == Cardinality(LiveChildren) <= 1

(* a start that stopped the running child and launched its successor *)
C2_Witness ==
    \E i \in CLIs :
        /\ Done(i) /\ cmd[i] = "start"
        /\ Has(i, "sigterm") /\ Has(i, "stop_return") /\ Has(i, "started")
        /\ Cardinality(LiveChildren) = 1

(* C3: escalation ordering.  The forceful kill is sent only after the
   graceful request was sent and the graceful wait timed out; a stop that
   sent the kill never reports "graceful", and when it returns it has
   reported "forced"; "forced" is reported only after the kill. *)
C3_EscalationOrdering ==
    \A i \in CLIs :
        /\ Has(i, "sigkill") =>
              /\ First(i, "sigterm") > 0
              /\ First(i, "sigterm") < First(i, "timeout")
              /\ First(i, "timeout") < First(i, "sigkill")
              /\ ~Has(i, "graceful")
              /\ Has(i, "stop_return") => Has(i, "forced")
        /\ Has(i, "forced") =>
              /\ Has(i, "sigkill")
              /\ First(i, "sigkill") < First(i, "forced")

C3_Witness ==
    \E i \in CLIs :
        /\ Done(i) /\ cmd[i] = "stop"
        /\ Has(i, "sigkill") /\ Has(i, "forced")
        /\ exitcode[i] = "zero"

(* C4: pre-flight stop before build.  When `build` finds the supervised
   process running (line 376) and goes on to invoke the toolchain, exactly
   one stop_background() call was made and it returned before the
   toolchain build was invoked. *)
C4_StopBeforeBuild ==
    \A i \in CLIs :
        (/\ cmd[i] = "build"
         /\ Len(trace[i]) > 0 /\ trace[i][1] = "probed_live"
         /\ Has(i, "toolchain_build")) =>
            /\ Count(i, "stop_call") = 1
            /\ Count(i, "stop_return") = 1
            /\ First(i, "stop_call") < First(i, "stop_return")
            /\ First(i, "stop_return") < First(i, "toolchain_build")

C4_Witness ==
    \E i \in CLIs :
        /\ Done(i) /\ cmd[i] = "build"
        /\ trace[i][1] = "probed_live"
        /\ Has(i, "graceful") /\ Has(i, "toolchain_build")
        /\ exitcode[i] = "zero"

(* C5 as stated: a second stop in succession never fails and always leaves no
   handle file, whatever the handle file and the process were. *)
C5_AsStated ==
    \A i \in CLIs :
        (Done(i) /\ cmd[i] = "stop" /\ prevStop # "none") =>
            exitcode[i] = "zero" /\ ~PID_FILE.exists

(* C5, amended: when the first of two stops in succession did not fail, the
   second does not fail either, and afterwards the handle file is absent or
   holds text that names no pid (stop never removes such a file). *)
C5_StopIdempotent ==
    \A i \in CLIs :
        (Done(i) /\ cmd[i] = "stop" /\ prevStop = "zero") =>
            /\ exitcode[i] = "zero"
            /\ ~PID_FILE.exists \/ ~IsInt(strip(PID_FILE.text))

C5_Witness ==
    \E i \in CLIs :
        /\ Done(i) /\ cmd[i] = "stop" /\ prevStop = "zero"
        /\ Has(i, "handle_absent") /\ Has(i, "nothing_to_stop")
        /\ exitcode[i] = "zero"

(* C6: stale-handle self-healing.  When check_status() probes the pid of the
   handle file and no such process exists (or it is a zombie), the handle
   file is removed and "not running" is reported; when the handle file is
   absent, "not running" is reported and no handle file is created. *)
C6_StaleHandleHealing ==
    \A i \in CLIs :
        cmd[i] = "status" =>
          /\ (Has(i, "probed_none") \/ Has(i, "probed_zombie")) =>
                /\ pc[i] \in {"grp_unlink", "status_got", "main_end", "done"}
                /\ pc[i] # "grp_unlink" => ~PID_FILE.exists
                /\ pc[i] \in {"main_end", "done"} => Has(i, "not_running")
                /\ ~Has(i, "running")
          /\ Has(i, "handle_absent") =>
                /\ ~PID_FILE.exists
                /\ pc[i] \in {"main_end", "done"} => Has(i, "not_running")
                /\ ~Has(i, "running")

C6_Witness ==
    \E i \in CLIs :
        /\ Done(i) /\ cmd[i] = "status"
        /\ Has(i, "probed_none") /\ Has(i, "not_running")
        /\ ~PID_FILE.exists

(* C7: stop success postcondition.  When stop_background() has reported a
   graceful or a forced stop, the process it targeted is gone, and once it
   has returned the handle file is absent (until a later launch); from the
   signal until the process is confirmed gone the handle file still names
   the target. *)
C7_StopSuccess ==
    \A i \in CLIs :
        /\ (Has(i, "graceful") \/ Has(i, "forced")) =>
              /\ process[i] = "gone"
              /\ (Has(i, "stop_return") /\ ~Has(i, "launch")) => ~PID_FILE.exists
        /\ pc[i] \in {"stop_wait", "stop_kill", "stop_wait5", "stop_cleanup",
                     "stop_unlink"} =>
              HandleNames(pid[i])

C7_Witness ==
    \E i \in CLIs :
        /\ Has(i, "graceful") /\ Has(i, "stop_return")
        /\ process[i] = "gone" /\ ~PID_FILE.exists

(* C8: vanished-process race.  When the process judged running is gone by
   the time stop_background() creates its Process object, signals or kills
   it (NoSuchProcess), stop_background() reports "already stopped", removes
   the handle file and returns: no stop failure, and `stop` exits zero. *)
C8_VanishedProcess ==
    \A i \in CLIs :
        Has(i, "no_such_process") =>
            \/ pc[i] = "stop_nsp"
            \/ pc[i] = "stop_nsp_unlink" /\ Has(i, "already_stopped")
            \/ /\ Has(i, "already_stopped")
               /\ Has(i, "stop_return")
               /\ ~Has(i, "stop_failed")
               /\ ~Has(i, "launch") => ~PID_FILE.exists
               /\ cmd[i] = "stop" => exitcode[i] # "nonzero"

(* the process vanished between the graceful timeout and the kill *)
C8_Witness ==
    \E i \in CLIs :
        /\ Done(i) /\ cmd[i] = "stop"
        /\ Has(i, "timeout") /\ Has(i, "no_such_process")
        /\ Has(i, "already_stopped")
        /\ exitcode[i] = "zero" /\ ~PID_FILE.exists

LaterSteps == {"graceful", "forced", "already_stopped", "stop_return",
               "toolchain_build", "toolchain_test", "toolchain_test_filter",
               "reap", "start_call",
               "launch", "db_copied", "db_deleted", "db_restored"}

(* C9: fatal stop failure.  When the signal or the kill is denied
   (AccessDenied), the invocation ends with a non-zero exit, reports no
   graceful, forced or already-stopped outcome, and runs no later step of
   its command: no toolchain, no reap, no start, no database copy or
   delete. *)
C9_FatalStopFailure ==
    \A i \in CLIs :
        Has(i, "access_denied") =>
            /\ pc[i] = "stop_error" \/ (Done(i) /\ exitcode[i] = "nonzero")
            /\ \A e \in LaterSteps : ~Has(i, e)

C9_Witness ==
    \E i \in CLIs :
        /\ Done(i) /\ cmd[i] = "start"
        /\ Has(i, "access_denied") /\ Has(i, "stop_failed")
        /\ exitcode[i] = "nonzero"

(* C10 as stated: a `stop` in which no signal or kill call fails exits
   zero. *)
C10_AsStated ==
    \A i \in CLIs :
        (Done(i) /\ cmd[i] = "stop" /\ ~Has(i, "access_denied")) =>
            exitcode[i] = "zero"

(* C10, amended: a `stop` exits zero when no signal or kill call fails and
   the wait after the kill does not time out; it exits non-zero only when a
   signal or kill call was denied or that wait timed out. *)
C10_StopExitCode ==
    \A i \in CLIs :
        (Done(i) /\ cmd[i] = "stop") =>
            (exitcode[i] = "nonzero"
                <=> (Has(i, "access_denied") \/ Has(i, "timeout5")))

C10_Witness ==
    \E i \in CLIs :
        /\ Done(i) /\ cmd[i] = "stop"
        /\ Has(i, "sigterm") /\ Has(i, "graceful")
        /\ exitcode[i] = "zero"

(* C11: failed build, no start.  When the toolchain build of a `start`
   invocation completes with a non-zero status, start_background() is not
   called: no launch, no handle file written, no log truncated; the failure
   is reported and the invocation ends with a non-zero exit. *)
C11_FailedBuildNoStart ==
    \A i \in CLIs :
        (cmd[i] = "start" /\ Has(i, "toolchain_build") /\ Has(i, "tool_nonzero")) =>
            /\ ~Has(i, "start_call")
            /\ ~Has(i, "launch")
            /\ ~Has(i, "pid_written")
            /\ ~Has(i, "log_truncated")
            /\ child[i] = None
            /\ Has(i, "command_failed")
            /\ Done(i) /\ exitcode[i] = "nonzero"

(* a start that stopped the running instance and whose build then failed *)
C11_Witness ==
    \E i \in CLIs :
        /\ Done(i) /\ cmd[i] = "start"
        /\ Has(i, "graceful") /\ Has(i, "tool_nonzero")
        /\ Has(i, "command_failed")
        /\ LiveChildren = {}

(* C12: toolchain failure exit.  For build, publish, watch, run, start and
   test, an invocation whose toolchain command completed with a non-zero
   status ends with a non-zero exit. *)
C12_ToolchainFailureExit ==
    \A i \in CLIs :
        (/\ Done(i)
         /\ cmd[i] \in {"build", "publish", "watch", "run", "start", "test"}
         /\ Has(i, "tool_nonzero")) =>
            exitcode[i] = "nonzero"

TestTools == {"toolchain_test", "toolchain_test_filter"}

(* C13: order of the test steps.  When `test` invokes the test toolchain:
   if the first probe found the handle's process running, exactly one
   stop_background() call was made and it returned before the reap;
   kill_test_processes() ran exactly once, before the toolchain, whether or
   not a stop was made; the toolchain was invoked once, with the filter
   exactly when a (non-empty) name filter was given. *)
C13_TestStepOrder ==
    \A i \in CLIs :
        (cmd[i] = "test" /\ \E t \in TestTools : Has(i, t)) =>
            /\ Count(i, "reap") = 1
            /\ \A t \in TestTools : Has(i, t) => First(i, "reap") < First(i, t)
            /\ Count(i, "toolchain_test") + Count(i, "toolchain_test_filter") = 1
            /\ Has(i, "toolchain_test_filter") <=> argv[i] \notin {<<>>, <<"">>}
            /\ Count(i, "stop_call") = Count(i, "stop_return")
            /\ Has(i, "stop_call") =>
                  /\ First(i, "stop_call") < First(i, "stop_return")
                  /\ First(i, "stop_return") < First(i, "reap")
            /\ trace[i][1] = "probed_live" => Count(i, "stop_call") = 1

(* a filtered test run that first stopped the running instance *)
C13_Witness ==
    \E i \in CLIs :
        /\ Done(i) /\ cmd[i] = "test" /\ argv[i] = <<"HLR_COMBAT_010">>
        /\ trace[i][1] = "probed_live"
        /\ Has(i, "graceful") /\ Has(i, "reap")
        /\ Has(i, "toolchain_test_filter")
        /\ exitcode[i] = "zero"

DbSteps == {"db_copied", "db_deleted", "db_restored"}

(* C14: database after stop.  When `db backup` or `db restore` is about to
   copy or delete database files, and from then on, the handle file names no
   process that is running and no child of start_background is alive; if the
   first probe found the handle's process running, exactly one
   stop_background() call was made and it returned before any database file
   was touched. *)
C14_DbAfterStop ==
    \A i \in CLIs :
        (/\ cmd[i] \in {"backup", "restore"}
         /\ \/ pc[i] \in {"backup_copy", "restore_copy"}
            \/ \E e \in DbSteps : Has(i, e)) =>
            /\ \A p \in Pids : HandleNames(p) => procs[p].st # "run"
            /\ LiveChildren = {}
            /\ (Len(trace[i]) > 0 /\ trace[i][1] = "probed_live") =>
                  /\ Count(i, "stop_call") = 1
                  /\ Count(i, "stop_return") = 1
                  /\ \A e \in DbSteps :
                        Has(i, e) => First(i, "stop_return") < First(i, e)

C14_Witness ==
    \E i \in CLIs :
        /\ Done(i) /\ cmd[i] = "restore"
        /\ trace[i][1] = "probed_live"
        /\ Has(i, "forced") /\ Has(i, "db_deleted") /\ Has(i, "db_restored")

(* C15: operator interrupt.  A KeyboardInterrupt raised during the foreground
   command of `run` or `watch` is caught: the shutdown message is printed
   and the invocation exits with status zero; neither the interrupted
   command nor the handler changes the handle file or the process table. *)
C15_InterruptHandled ==
    /\ [](\A i \in CLIs :
            Has(i, "KeyboardInterrupt") =>
                /\ cmd[i] \in {"run", "watch"}
                /\ \/ pc[i] = "rdc_interrupt"
                   \/ /\ Done(i) /\ exitcode[i] = "zero"
                      /\ Has(i, "shutdown_requested"))
    /\ [][\A i \in CLIs :
            (pc[i] \in {"rdc_foreground", "rdc_interrupt"} /\ pc'[i] # pc[i])
                => (PID_FILE' = PID_FILE /\ procs' = procs)]_vars

(* an interrupted `watch` with the supervised child alive and recorded *)
C15_Witness ==
    \E i \in CLIs :
        /\ Done(i) /\ cmd[i] = "watch"
        /\ Has(i, "KeyboardInterrupt") /\ Has(i, "shutdown_requested")
        /\ exitcode[i] = "zero"
        /\ \E p \in LiveChildren : HandleNames(p)

Toolchains == {"toolchain_build", "toolchain_test", "toolchain_test_filter"}

(* C17: toolchain only without a live instance.  Whenever build, start or
   test has invoked the build or test toolchain (and, for start, until the
   new launch), no child of start_background is alive, the process the
   pre-flight stop took hold of is gone, and the handle file names no
   running process. *)
C17_ToolchainWithoutInstance ==
    \A i \in CLIs :
        (/\ cmd[i] \in PreStepCommands
         /\ \E t \in Toolchains : Has(i, t)
         /\ ~Has(i, "launch")) =>
            /\ LiveChildren = {}
            /\ process[i] # "live"
            /\ \A p \in Pids : HandleNames(p) => procs[p].st # "run"

(* a build that found the child of an earlier start running and stopped it *)
C17_Witness ==
    \E i \in CLIs :
        /\ cmd[i] = "build" /\ pc[i] = "rdc_end"
        /\ trace[i][1] = "probed_live"
        /\ Has(i, "sigterm") /\ Has(i, "stop_return")
        /\ Has(i, "toolchain_build")
        /\ procs[pid[i]].st = "none"

(* C18: child dies during the grace sleep.  When the launched child has
   exited by the probe after the sleep, start_background() reports the
   failure (and not success) from that one probe and leaves the handle file
   holding the child's pid, to the end of the invocation; and a handle file
   that names a process that is not running changes only where
   get_running_pid() unlinks it or a stop_background() that had found the
   pid running cleans up. *)
C18_ChildDiesInGrace ==
    /\ [](\A i \in CLIs :
            Has(i, "child_exited") =>
                /\ Has(i, "start_failed") /\ ~Has(i, "started")
                /\ Count(i, "child_exited") + Count(i, "child_running") = 1
                /\ PID_FILE = File(str(child[i]))
                /\ procs[child[i]] # Proc("run", "child"))
    /\ [][(PID_FILE' # PID_FILE
            /\ \E p \in Pids : HandleNames(p) /\ procs[p].st # "run")
            => \E i \in CLIs : pc[i] \in {"grp_unlink", "stop_unlink",
                                         "stop_nsp_unlink"}
                               /\ pc'[i] # pc[i]]_vars

C18_Witness ==
    \E i \in CLIs :
        /\ Done(i) /\ cmd[i] = "start"
        /\ Has(i, "launch") /\ Has(i, "slept")
        /\ Has(i, "child_exited") /\ Has(i, "start_failed")
        /\ HandleNames(child[i]) /\ procs[child[i]].st = "zombie"

(* C19: is_process_running(pid) is true exactly when the process exists, is
   not a zombie and may be looked up; check_status() reports "running"
   exactly when the probe met such a process and never ends with an error,
   and start_background() reports success exactly when the child is
   running. *)
C19_IsProcessRunning ==
    /\ \A p \in Pids :
          is_process_running(p) <=>
              (Exists(p) /\ procs[p].st # "zombie" /\ ~ProbeDenied(p))
    /\ \A i \in CLIs :
          /\ (Done(i) /\ cmd[i] = "status") =>
                /\ Has(i, "running") <=> Has(i, "probed_live")
                /\ exitcode[i] = "zero"
          /\ Has(i, "started") <=> Has(i, "child_running")

(* a status whose lookup of the recorded process was denied *)
C19_Witness ==
    \E i \in CLIs :
        /\ Done(i) /\ cmd[i] = "status"
        /\ Has(i, "probed_denied") /\ Has(i, "not_running")
        /\ exitcode[i] = "zero"
        /\ \E p \in Pids : procs[p] = Proc("run", "hidden")

(* C16: handle before the grace sleep.  start_background() writes the pid of
   the launched child to the handle file after the launch and before the
   sleep; so from the start of the sleep to the end of the invocation, also
   when the invocation was killed or interrupted at or after the sleep, the
   handle file holds the pid of the launched child. *)
C16_HandleBeforeSleep ==
    \A i \in CLIs :
        /\ Has(i, "pid_written") =>
              /\ 0 < First(i, "launch")
              /\ First(i, "launch") < First(i, "pid_written")
        /\ Has(i, "slept") =>
              /\ 0 < First(i, "pid_written")
              /\ First(i, "pid_written") < First(i, "slept")
        /\ (pc[i] = "start_sleep" \/ Has(i, "start_sleep") \/ Has(i, "slept")) =>
              /\ child[i] # None
              /\ PID_FILE = File(str(child[i]))

(* a start killed during the sleep: the child is alive and recorded *)
C16_Witness ==
    \E i \in CLIs :
        /\ Done(i) /\ cmd[i] = "start" /\ exitcode[i] = "killed"
        /\ Has(i, "start_sleep") /\ Has(i, "killed")
        /\ child[i] \in LiveChildren
        /\ HandleNames(child[i])

(* How get_running_pid() comes to answer None without a probe: the handle
   file is missing, was removed before the read or before the unlink, cannot
   be read, or holds no decimal integer. *)
AbsentEvents == {"handle_absent", "handle_vanished", "unlink_missing",
                 "io_error", "handle_unreadable"}

(* Where the callers of get_running_pid() are before their next output. *)
AfterNone == {"status_got", "stop_got", "start_got", "rdc_got", "rdc_stopped",
              "rdc_build", "kill_test_processes"}

(* What status, stop, start, build and test do next when nothing is managed. *)
AsIfNone == {"not_running", "nothing_to_stop", "log_truncated",
             "toolchain_build", "reap"}

(* C20: handle problems mean absent.  When the handle file is missing,
   removed by someone else before the read or the unlink, unreadable, empty
   or no decimal integer, get_running_pid() returns None and the invocation
   does not end there: status reports "not running", stop "nothing to stop",
   start_background() goes on to launch, and build, start and test go on
   to their toolchain or reap without a stop. *)
C20_HandleProblemsMeanAbsent ==
    \A i \in CLIs :
        \A k \in 1..Len(trace[i]) :
            trace[i][k] \in AbsentEvents =>
                IF k = Len(trace[i])
                THEN /\ pc[i] \in AfterNone
                     /\ pid[i] = None
                     /\ exitcode[i] = "none"
                ELSE trace[i][k + 1] \in AsIfNone

(* the handle file was removed between line 215 and line 219 of a stop *)
C20_Witness ==
    \E i \in CLIs :
        /\ Done(i) /\ cmd[i] = "stop"
        /\ Has(i, "handle_vanished") /\ Has(i, "nothing_to_stop")
        /\ exitcode[i] = "zero"

(* C26: only the launched child is stopped.  A step of stop_background()
   that delivers the termination signal (313-316) or the kill (325) to a
   running process delivers it to a child launched by start_background(),
   never to an unrelated process that has been given the recorded pid. *)
C26_OnlyLaunchedSignalled ==
    [][\A i \in CLIs :
          (/\ pc[i] \in {"stop_signal", "stop_kill"}
           /\ pc'[i] \in {"stop_wait", "stop_wait5"}
           /\ procs[pid[i]].st = "run")
          => procs[pid[i]].kind = "child"]_vars

(* C28: a failed stop keeps the handle.  When stop_background() fails
   because the signal or the kill was denied or the wait after the kill
   timed out, the handle file still names the pid it tried to stop, also
   when the next invocation begins; a following `status` that finds that
   process alive reports it as running, and a following start_background()
   that finds it alive reports "already running" and launches nothing. *)
C28_FailedStopKeepsHandle ==
    \A i \in CLIs :
        /\ (Has(i, "access_denied") \/ Has(i, "timeout5")) =>
              /\ pc[i] = "stop_error" \/ (Done(i) /\ Has(i, "stop_failed"))
              /\ HandleNames(pid[i])
        /\ (/\ prevStop = "nonzero"
            /\ pc[i] = "get_running_pid"
            /\ trace[i] \in {<<>>, <<"stop_call">>, <<"start_call">>}) =>
              \E p \in Pids : HandleNames(p)
        /\ (prevStop = "nonzero" /\ Done(i) /\ Has(i, "probed_live")) =>
              /\ cmd[i] = "status" =>
                    Has(i, "running") /\ HandleNames(pid[i])
              /\ cmd[i] = "start_background" =>
                    /\ Has(i, "already_running") /\ ~Has(i, "launch")
                    /\ HandleNames(pid[i])

(* the start_background() after a stop that timed out is rejected *)
C28_Witness ==
    \E i \in CLIs :
        /\ prevStop = "nonzero" /\ Done(i) /\ cmd[i] = "start_background"
        /\ Has(i, "probed_live") /\ Has(i, "already_running")
        /\ HandleNames(pid[i])
        /\ procs[pid[i]] = Proc("run", "child")

(* C21: no partial read of the handle.  From the moment start_background()
   has opened the handle file for writing (which empties it) until its
   write is done, the file holds no character at all (or has been removed
   by the other invocation), and a
   get_running_pid() of another invocation that reads the file from that
   moment on obtains no pid (the text is empty) or the whole new pid: never
   a number made of a part of its digits. *)
C21_NoPartialRead ==
    /\ [](\A w \in CLIs : pc[w] = "start_write" => PID_FILE.text = <<>>)
    /\ [][\A j \in CLIs, w \in CLIs :
            (/\ j # w
             /\ pc[j] = "grp_read" /\ pc'[j] # "grp_read"
             /\ pc[w] = "start_write" \/ Has(w, "pid_written"))
            => pid'[j] \in {None, child[w]}]_vars

(* a status read the handle file between the open and the write of a
   start_background() that had found no file: it took the empty file for
   "no process" *)
C21_Witness ==
    \E j \in CLIs, w \in CLIs :
        /\ j # w
        /\ Has(w, "handle_absent") /\ Has(w, "launch") /\ pc[w] = "start_write"
        /\ cmd[j] = "status" /\ Done(j)
        /\ Has(j, "handle_unreadable") /\ Has(j, "not_running")

(* What an invocation records when the handle file it had seen is gone at
   its read (219) or at one of its unlinks (226, 331, 336). *)
VanishedEvents == {"handle_vanished", "unlink_missing", "cleanup_failed"}

(* C22: the handle cleared underneath.  While another invocation runs `stop`
   in the same working directory, an invocation of status, stop, start or
   build that finds the handle file gone between its existence test and its
   read or unlink goes on as if the handle were absent: what follows is no
   stop failure and no uncaught exception. *)
C22_ToleratesClearedHandle ==
    \A i \in CLIs, j \in CLIs :
        (i # j /\ cmd[i] = "stop") =>
            \A k \in 1..Len(trace[j]) :
                trace[j][k] \in VanishedEvents =>
                    IF k = Len(trace[j])
                    THEN pc[j] # "stop_error" /\ exitcode[j] # "nonzero"
                    ELSE trace[j][k + 1] \notin {"stop_failed", "uncaught"}

(* C29: overlapping starts leave no unrecorded child.  When two `start`
   invocations that overlapped and both called start_background() have
   ended, every child of
   start_background() that is alive is the one the handle file names (so at
   most one is alive). *)
C29_NoUnrecordedChild ==
    (\A i \in CLIs : cmd[i] = "start" /\ Has(i, "start_call") /\ Done(i)) =>
        \A p \in LiveChildren : HandleNames(p)

(* The ways a call of stop_background() ends, as it reports them. *)
StopOutcomes == {"nothing_to_stop", "graceful", "forced", "already_stopped",
                 "stop_failed"}

(* The number of events of the set es in the trace of i. *)
CountIn(i, es) == Cardinality({k \in 1..Len(trace[i]) : trace[i][k] \in es})

(* C25: stop terminates.  Every `stop` invocation that has begun ends; it
   signals at most once and kills at most once, waits at most twice (once
   after the signal, once after the kill, the second only after the first
   timed out), and when it has ended it has reported exactly one of
   nothing-to-stop, graceful, forced, already-stopped and failed; also when
   the process it targets never exits. *)
C25_StopTerminates ==
    /\ [](\A i \in CLIs :
            /\ Count(i, "sigterm") <= 1 /\ Count(i, "sigkill") <= 1
            /\ CountIn(i, {"graceful", "timeout"}) <= Count(i, "sigterm")
            /\ CountIn(i, {"forced", "timeout5"}) <= Count(i, "sigkill")
            /\ Has(i, "sigkill") => Has(i, "timeout")
            /\ CountIn(i, StopOutcomes) <= 1
            /\ (Done(i) /\ cmd[i] = "stop") => CountIn(i, StopOutcomes) = 1)
    /\ \A i \in CLIs : (pc[i] = "stop_background") ~> Done(i)

(* a stop whose target survived the signal and the kill: both waits timed
   out and the stop ended as failed *)
C25_Witness ==
    \E i \in CLIs :
        /\ Done(i) /\ cmd[i] = "stop"
        /\ Has(i, "timeout") /\ Has(i, "timeout5") /\ Has(i, "stop_failed")
        /\ procs[pid[i]].st = "run"

(* C27: the reaper spares the invocation.  A `test` invocation that has begun
   the scan of kill_test_processes() is not killed by it, whatever the filter
   on its command line: when it has ended (otherwise than by a failure of
   the toolchain it ran) it has run the test toolchain. *)
C27_ReaperSparesItself ==
    \A i \in CLIs :
        (cmd[i] = "test" /\ Has(i, "reap")) =>
            /\ ~Has(i, "self_killed")
            /\ Done(i) => CountIn(i, {"toolchain_test", "toolchain_test_filter"}) = 1

(* C24: the reaper's scope.  kill_test_processes() leaves the handle file as
   it is and every process launched by start_background() as it is; a
   process it changes was running with a marker on its command line. *)
C24_ReaperSparesPrimary ==
    [][\A i \in CLIs :
         (pc[i] = "kill_test_processes" /\ pc'[i] # pc[i]) =>
            /\ PID_FILE' = PID_FILE
            /\ \A p \in Pids :
                 /\ procs[p].kind = "child" => procs'[p] = procs[p]
                 /\ procs'[p] # procs[p] =>
                      /\ procs[p].st = "run" /\ procs[p].kind \in TestKinds
                      /\ HasMarker(info_cmdline(p))]_vars

(* a scan that killed a worker while a child of start_background was alive *)
C24_Witness ==
    \E i \in CLIs :
        /\ pc[i] = "rdc_test" /\ Has(i, "kill_ok")
        /\ LiveChildren # {}

(* What a call of proc.kill() in the scan is recorded as. *)
KillEvents == {"kill_ok", "kill_denied", "kill_vanished"}

(* C23: failures in the scan.  A scan of kill_test_processes() that returns
   has called proc.kill() once for each process with a marker that was
   enumerated, whatever the calls before it did (a NoSuchProcess or
   AccessDenied ends neither the scan nor the invocation), and the count it
   returns is the number of its calls that did not fail; processes without a
   marker are not counted. *)
C23_ScanSwallowsFailures ==
    /\ [](\A i \in CLIs :
            (Has(i, "reap_done") /\ Busy(i)) =>
               /\ killed[i] = Count(i, "kill_ok")
               /\ Has(i, "cleaned_up") <=> killed[i] > 0)
    /\ [][\A i \in CLIs :
            (pc[i] = "kill_test_processes" /\ pc'[i] # pc[i]) =>
               /\ CountIn(i, KillEvents) = 0
               /\ (CountIn(i, {"kill_denied", "kill_vanished"}))' > 0 =>
                     exitcode'[i] \in {"none", "killed"}
               /\ pc'[i] = "rdc_test" =>
                     /\ (CountIn(i, KillEvents))' = Cardinality(Matching)
                     /\ killed'[i] = (Count(i, "kill_ok"))'
                     /\ killed'[i] =
                          Cardinality({p \in Matching : procs'[p].st = "zombie"})
                     /\ exitcode'[i] = "none"]_vars

(* a scan that went on after a kill that was denied, and killed the next
   worker: one was counted *)
C23_Witness ==
    \E i \in CLIs :
        /\ pc[i] = "rdc_test" /\ killed[i] = 1
        /\ \E k \in 1..Len(trace[i]) : \E l \in (k + 1)..Len(trace[i]) :
              trace[i][k] = "kill_denied" /\ trace[i][l] = "kill_ok"

====
